---- MODULE Spec2Model ----
(***************************************************************************)
(* Model of the two setup scripts of the repository:                       *)
(*   src/linuxmint-setup.py  (system configurator, class Setup and main)   *)
(*   src/firefox_setup.py    (preference-file writer)                      *)
(*                                                                         *)
(* Text is modelled as a sequence of tokens; every token stands for its    *)
(* literal characters and the token alphabet is prefix-free, so that two   *)
(* token sequences are equal exactly when the texts they stand for are.    *)
(* A file is its content (one flat token sequence) or NoFile.              *)
(***************************************************************************)
EXTENDS Integers, Sequences, FiniteSets, TLC

VARIABLES
    \* --- the journald configuration (both specifications of linuxmint-setup.py)
    config,     \* content of /etc/systemd/journald.conf, or NoFile
    backup,     \* content of /etc/systemd/journald.conf.bak, or NoFile
    orig,       \* history variable: config at start, before any call
    hist,       \* history variable: one record per set_journald_property call
    \* --- the process running main() of linuxmint-setup.py
    sys_argv,    \* sys.argv of the running process: program name, then arguments
    argv0,       \* history variable: sys.argv of the process as first started
    uid,         \* os.getuid() of the running process
    pc,          \* "cli_options", "check_argv", "elevate", "actions", "exited"
    args,        \* the parsed namespace: the set of flags that are True
    act,         \* index in ActionOrder of the `if args.X` reached in main()
    step,        \* 0, or index of the next step of the action being run
    ran,         \* history variable: the actions started, with the uid of each
    last,        \* history variable: the last step run and how it went
    exit,        \* exit status and cause once the process has ended
    sudo_calls,  \* history variable: os.execvp("sudo", ..) calls made
    refreshes,   \* history variable: calls of Setup.update() that returned
    \* --- the process running main() of firefox_setup.py
    ff_pc,      \* position in main(): "elevate", "autoconfig", "open", "write",
                \* "done", "exited"
    ff_uid,     \* os.getuid() of the running process
    ff_i,       \* calls of firefox_cfg_setup's body made so far
    ff_auto,    \* content of /usr/lib/firefox/defaults/pref/autoconfig.js
    ff_cfg,     \* content of /usr/lib/firefox/firefox.cfg
    \* --- one routine of Setup run on its own: install_vscode, or the loop of
    \*     main() over activate_service
    rt_routine, \* the routine run
    rt_state,   \* "running", "returned", or "raised" (an exception left it)
    rt_step,    \* index of the next step of the routine
    rt_trace,   \* history variable: the steps run, each with its outcome
    rt_log      \* history variable: the lines the routine logged

jvars == <<config, backup, orig, hist>>
mvars == <<sys_argv, argv0, uid, pc, args, act, step, ran, last, exit, sudo_calls,
           refreshes>>
fvars == <<ff_pc, ff_uid, ff_i, ff_auto, ff_cfg>>
rvars == <<rt_routine, rt_state, rt_step, rt_trace, rt_log>>
vars  == <<jvars, mvars, fvars, rvars>>

\* The value of a path at which there is no file (no content holds this token).
NoFile == <<"<no such file>">>

(***************************************************************************)
(* Bounds of the model.                                                    *)
(***************************************************************************)
MaxLines == 2      \* lines of the initial journald.conf
MaxCalls == 2      \* set_journald_property calls in one run of the harness

(***************************************************************************)
(* Python string operations, on token sequences.                           *)
(***************************************************************************)
NL == "\n"

Whitespace == {" ", "\t", NL}

\* str.startswith(prefix)
startswith(s, p) == Len(s) >= Len(p) /\ SubSeq(s, 1, Len(p)) = p

\* the `in` operator on strings: p occurs in s as a substring
contains(s, p) ==
    \E i \in 1..(Len(s) - Len(p) + 1) : SubSeq(s, i, i + Len(p) - 1) = p

RECURSIVE lstrip(_)
lstrip(s) ==
    IF s # <<>> /\ Head(s) \in Whitespace THEN lstrip(Tail(s)) ELSE s

RECURSIVE rstrip(_)
rstrip(s) ==
    IF s # <<>> /\ s[Len(s)] \in Whitespace
    THEN rstrip(SubSeq(s, 1, Len(s) - 1))
    ELSE s

\* str.strip()
strip(s) == rstrip(lstrip(s))

\* f.readlines(): the content cut after every newline; the last line keeps
\* no newline when the content does not end with one.
readlines(content) ==
    LET nlpos == SelectSeq([i \in 1..Len(content) |-> i],
                           LAMBDA i : content[i] = NL)
        n     == Len(nlpos)
                 + (IF content # <<>> /\ content[Len(content)] # NL THEN 1 ELSE 0)
    IN  [k \in 1..n |->
            SubSeq(content,
                   IF k = 1 THEN 1 ELSE nlpos[k - 1] + 1,
                   IF k <= Len(nlpos) THEN nlpos[k] ELSE Len(content))]

\* f.writelines(lines): the strings written one after the other, nothing added
RECURSIVE writelines(_)
writelines(lines) ==
    IF lines = <<>> THEN <<>> ELSE Head(lines) \o writelines(Tail(lines))

(***************************************************************************)
(* Setup.set_journald_property (src/linuxmint-setup.py, lines 232-267).    *)
(***************************************************************************)
Marker == <<"[", "Journal", "]">>                 \* the literal "[Journal]"

\* The keys main() patches (lines 609-612).
Storage           == <<"Storage">>
SystemMaxUse      == <<"SystemMax", "Use">>
SystemMaxFileSize == <<"SystemMax", "FileSize">>
SyncIntervalSec   == <<"SyncIntervalSec">>

\* val_regex, line 235:
\*   (^[0-9]+[KMGTPsmhday]?$)|(^(persistent|auto|volatile|yes|no)$)
\* A digit or a unit letter is a token of its own; each named value is one
\* token (no input of the model spells a named value letter by letter).
Digits   == {"0", "1", "2", "3", "4", "5", "6", "7", "8", "9"}
Units    == {"K", "M", "G", "T", "P", "s", "m", "h", "d", "a", "y"}
Keywords == {"persistent", "auto", "volatile", "yes", "no"}

\* ^[0-9]+[KMGTPsmhday]? up to the end of t
MatchNumeric(t) ==
    \E n \in 1..Len(t) :
        /\ \A i \in 1..n : t[i] \in Digits
        /\ \/ n = Len(t)
           \/ n + 1 = Len(t) /\ t[n + 1] \in Units

\* ^(persistent|auto|volatile|yes|no) up to the end of t
MatchKeyword(t) == Len(t) = 1 /\ t[1] \in Keywords

\* The places where Python's `$` matches: the end of the string and, when the
\* string ends with a newline, just before that newline.
DollarCuts(s) ==
    {s} \cup (IF s # <<>> /\ s[Len(s)] = NL THEN {SubSeq(s, 1, Len(s) - 1)} ELSE {})

\* re.match(val_regex, str(value)), line 236
val_match(s) == \E t \in DollarCuts(s) : MatchNumeric(t) \/ MatchKeyword(t)

\* f"{key}={value}\n", line 257
Assignment(key, value) == key \o <<"=">> \o value \o <<NL>>

\* lines 247-250: the condition under which a line is dropped
IsKeyLine(line, key) ==
    LET stripped == strip(line)
    IN  \/ startswith(stripped, key \o <<"=">>)
        \/ startswith(stripped, <<"#">> \o key \o <<"=">>)

\* lines 245-251: the lines kept
new_lines(lines, key) == SelectSeq(lines, LAMBDA line : ~IsKeyLine(line, key))

\* lines 253-258, found_section after the loop
found_section(lines) == \E i \in 1..Len(lines) : contains(lines[i], Marker)

\* lines 252-258: the loop that copies the lines and appends the assignment
\* after a line in which the marker occurs
RECURSIVE AppendAfterMarker(_, _, _)
AppendAfterMarker(lines, key, value) ==
    IF lines = <<>> THEN <<>>
    ELSE <<Head(lines)>>
         \o (IF contains(Head(lines), Marker)
             THEN <<Assignment(key, value)>> ELSE <<>>)
         \o AppendAfterMarker(Tail(lines), key, value)

\* Mutant of final_lines: the new section appended at the end of the file
\* instead of inserted at index 0.
final_lines_header_last(lines, key, value) ==
    IF found_section(lines)
    THEN AppendAfterMarker(lines, key, value)
    ELSE AppendAfterMarker(lines, key, value)
         \o <<Marker \o <<NL>> \o Assignment(key, value)>>

\* lines 252-260: final_lines, with the header inserted at index 0 when no
\* line holds the marker (one string, "[Journal]\nkey=value\n")
final_lines(lines, key, value) ==
    IF found_section(lines)
    THEN AppendAfterMarker(lines, key, value)
    ELSE <<Marker \o <<NL>> \o Assignment(key, value)>>
         \o AppendAfterMarker(lines, key, value)

\* lines 243-262: the content written for the content read
Patched(content, key, value) ==
    writelines(final_lines(new_lines(readlines(content), key), key, value))

\* How the filesystem steps of the try block can go: all succeed; shutil.copy2
\* raises (line 240; it is called only when there is no backup); reading the
\* config file raises (lines 243-244); the write raises after open(.., "w")
\* truncated the file, the buffered text lost (lines 261-262).
IoOutcomes == {"ok", "copy_raises", "read_raises", "write_raises"}

\* The outcomes drawn where the files vary (the harness on any initial file,
\* and main()): the rewrite fails or nothing does.  Every outcome is drawn on
\* the installed file, in the harness of JCallIo.
EditOutcomes == {"ok", "write_raises"}

\* The step of a call that fails, for the files found and the outcome drawn:
\* "none" when no filesystem step is executed (the value is rejected), "ok"
\* when none fails.  shutil.copy2 is called only when there is no backup, and
\* raises when there is no config file; so does open(config_file, "r").
FailingStep(cfg, bak, value, io) ==
    IF ~val_match(value) THEN "none"
    ELSE IF bak = NoFile /\ (cfg = NoFile \/ io = "copy_raises") THEN "copy_raises"
    ELSE IF cfg = NoFile \/ io = "read_raises" THEN "read_raises"
    ELSE IF io = "write_raises" THEN "write_raises"
    ELSE "ok"

LogInvalid == "error: Invalid value"
LogBackup  == "info: Backup created"
LogSet     == "step: Journald set"
LogFailed  == "error: Failed to modify journald.conf"

\* Mutant of BackupStep: the os.path.exists test dropped, every call copies.
BackupStep_always_copies(cfg, bak) == cfg

\* lines 239-242: the backup after the backup step (unchanged when it exists)
BackupStep(cfg, bak) == IF bak = NoFile THEN cfg ELSE bak

\* Mutant of set_journald_property: the backup step moved before the
\* validation of the value.
set_journald_property_backup_before_check(cfg, bak, key, value, io) ==
    IF ~val_match(value)
    THEN [config |-> cfg,
          backup |-> IF cfg = NoFile THEN bak ELSE BackupStep(cfg, bak),
          ret |-> FALSE, log |-> <<LogInvalid>>]
    ELSE [config |-> IF cfg = NoFile \/ io # "ok" THEN cfg
                     ELSE Patched(cfg, key, value),
          backup |-> IF cfg = NoFile THEN bak ELSE BackupStep(cfg, bak),
          ret |-> cfg # NoFile /\ io = "ok",
          log |-> <<LogSet>>]

\* Mutant of set_journald_property: the except clause of lines 265-267 returns
\* True.
set_journald_property_except_returns_true(cfg, bak, key, value, io) ==
    IF ~val_match(value)
    THEN [config |-> cfg, backup |-> bak, ret |-> FALSE, log |-> <<LogInvalid>>]
    ELSE IF cfg = NoFile \/ (bak = NoFile /\ io = "copy_raises")
    THEN \* shutil.copy2 raises, or open(config_file, "r") does
         [config |-> cfg, backup |-> bak, ret |-> TRUE, log |-> <<LogFailed>>]
    ELSE LET bak2 == BackupStep(cfg, bak)
             l1   == IF bak = NoFile THEN <<LogBackup>> ELSE <<>>
         IN  CASE io = "read_raises" ->
                    [config |-> cfg, backup |-> bak2,
                     ret |-> TRUE, log |-> Append(l1, LogFailed)]
               [] io = "write_raises" ->
                    [config |-> <<>>, backup |-> bak2,
                     ret |-> TRUE, log |-> Append(l1, LogFailed)]
               [] OTHER ->
                    [config |-> Patched(cfg, key, value), backup |-> bak2,
                     ret |-> TRUE, log |-> Append(l1, LogSet)]

\* The whole call: the files, the return value and the log lines it leaves.
set_journald_property(cfg, bak, key, value, io) ==
    IF ~val_match(value)
    THEN [config |-> cfg, backup |-> bak, ret |-> FALSE, log |-> <<LogInvalid>>]
    ELSE IF cfg = NoFile \/ (bak = NoFile /\ io = "copy_raises")
    THEN \* shutil.copy2 raises, or open(config_file, "r") does
         [config |-> cfg, backup |-> bak, ret |-> FALSE, log |-> <<LogFailed>>]
    ELSE LET bak2 == BackupStep(cfg, bak)
             l1   == IF bak = NoFile THEN <<LogBackup>> ELSE <<>>
         IN  CASE io = "read_raises" ->
                    [config |-> cfg, backup |-> bak2,
                     ret |-> FALSE, log |-> Append(l1, LogFailed)]
               [] io = "write_raises" ->
                    [config |-> <<>>, backup |-> bak2,
                     ret |-> FALSE, log |-> Append(l1, LogFailed)]
               [] OTHER ->
                    [config |-> Patched(cfg, key, value), backup |-> bak2,
                     ret |-> TRUE, log |-> Append(l1, LogSet)]

(***************************************************************************)
(* The system configurator: main() of src/linuxmint-setup.py and the       *)
(* methods of Setup it calls.  One process; pc is its position in main().  *)
(***************************************************************************)
ProgName == "linuxmint-setup.py"
Python   == "python"                      \* sys.executable
Root     == 0                             \* the uid tested in line 76
UserUids == {1000}                        \* uids of unprivileged users

\* self.options, lines 57-65
NoShort == "<none>"
options ==
    << [short |-> "-u",    long |-> "--update",  dest |-> "update",  action |-> "store_true"],
       [short |-> "-r",    long |-> "--remove",  dest |-> "remove",  action |-> "store_true"],
       [short |-> "-i",    long |-> "--install", dest |-> "install", action |-> "store_true"],
       [short |-> NoShort, long |-> "--vscode",  dest |-> "vscode",  action |-> "store_true"],
       [short |-> "-c",    long |-> "--clean",   dest |-> "clean",   action |-> "store_true"],
       [short |-> "-s",    long |-> "--system",  dest |-> "system",  action |-> "store_true"],
       [short |-> "-h",    long |-> "--help",    dest |-> "help",    action |-> "help"] >>

\* The option an argument names (0 when it names none), lines 68-71
OptionOf(tok) ==
    IF \E i \in 1..Len(options) : tok \in {options[i].short, options[i].long} \ {NoShort}
    THEN CHOOSE i \in 1..Len(options) :
             tok \in {options[i].short, options[i].long} \ {NoShort}
    ELSE 0

\* cli_options, lines 104-107: parser.parse_args().  The help action prints the
\* help and exits 0 as soon as it is met; arguments that name no option are
\* collected and reported (exit status 2) after the scan.
parse_args(arguments) ==
    LET opt(i) == OptionOf(arguments[i])
    IN  IF \E i \in 1..Len(arguments) : opt(i) # 0 /\ options[opt(i)].action = "help"
        THEN [kind |-> "help", status |-> 0, args |-> {}]
        ELSE IF \E i \in 1..Len(arguments) : opt(i) = 0
        THEN [kind |-> "error", status |-> 2, args |-> {}]
        ELSE [kind |-> "ok", status |-> 0,
              args |-> {options[opt(i)].dest : i \in 1..Len(arguments)}]

\* Mutant of check_argv: the program name not counted.
check_argv_off_by_one(argv) == Len(argv) = 0

\* check_argv, lines 109-114: TRUE when it prints the help and exits 1
check_argv(argv) == Len(argv) = 1

\* line 78 and os.execvp, line 80: sudo is started with
\* cmd = ("sudo", sys.executable, *sys.argv) as its argument vector, and starts
\* cmd[1:] as root; the interpreter so started has cmd[2:] as sys.argv.
sudo_cmd(argv) == <<"sudo", Python>> \o argv
ReexecArgv(argv) == SubSeq(sudo_cmd(argv), 3, Len(sudo_cmd(argv)))

\* How os.execvp("sudo", cmd) can go: it raises (no sudo to start); sudo starts
\* and refuses (the process, now sudo, exits 1); sudo starts the script as root.
ExecOutcomes == {"raises", "sudo_refuses", "sudo_runs"}

NoExit == [status |-> -1, cause |-> "running"]

\* Mutant of elevate_privileges: the sys.exit(1) of line 83 dropped, so that a
\* failed execvp falls through to the dispatch.
elevate_privileges_no_exit(u, argv, outcome) ==
    IF u = Root
    THEN [pc |-> "actions", uid |-> u, argv |-> argv, exit |-> NoExit, execs |-> 0]
    ELSE CASE outcome = "raises" ->
                [pc |-> "actions", uid |-> u, argv |-> argv,
                 exit |-> NoExit, execs |-> 1]
           [] outcome = "sudo_refuses" ->
                [pc |-> "exited", uid |-> u, argv |-> argv,
                 exit |-> [status |-> 1, cause |-> "sudo"], execs |-> 1]
           [] OTHER ->
                [pc |-> "cli_options", uid |-> Root, argv |-> ReexecArgv(argv),
                 exit |-> NoExit, execs |-> 1]

\* elevate_privileges, lines 73-83
elevate_privileges(u, argv, outcome) ==
    IF u = Root
    THEN [pc |-> "actions", uid |-> u, argv |-> argv, exit |-> NoExit, execs |-> 0]
    ELSE CASE outcome = "raises" ->
                [pc |-> "exited", uid |-> u, argv |-> argv,
                 exit |-> [status |-> 1, cause |-> "elevate"], execs |-> 1]
           [] outcome = "sudo_refuses" ->
                [pc |-> "exited", uid |-> u, argv |-> argv,
                 exit |-> [status |-> 1, cause |-> "sudo"], execs |-> 1]
           [] OTHER ->
                [pc |-> "cli_options", uid |-> Root, argv |-> ReexecArgv(argv),
                 exit |-> NoExit, execs |-> 1]

(***************************************************************************)
(* The steps of the actions.  A step is an external command (subprocess.run *)
(* or run_as_user), a Python file or network operation that can raise, or a *)
(* set_journald_property call.  check: the command is run with check=True.  *)
(* catch: the except clause of the try block around the step ("none" when   *)
(* there is none, "cpe" for subprocess.CalledProcessError, "exc" for        *)
(* Exception).  try: the name of that try block; a caught exception leaves  *)
(* the block, so the steps of the same block that follow are skipped.       *)
(***************************************************************************)
Cmd(op, check, catch, try) ==
    [kind |-> "cmd", op |-> op, check |-> check, catch |-> catch, try |-> try,
     warns |-> FALSE, key |-> <<>>, value |-> <<>>]

Py(op, try) ==
    [kind |-> "py", op |-> op, check |-> FALSE, catch |-> "exc", try |-> try,
     warns |-> FALSE, key |-> <<>>, value |-> <<>>]

Jrn(key, value) ==
    [kind |-> "journald", op |-> <<"set_journald_property">>, check |-> FALSE,
     catch |-> "exc", try |-> <<"journald">>, warns |-> FALSE,
     key |-> key, value |-> value]

\* Setup.update, lines 116-124
update_steps ==
    << Cmd(<<"apt", "update", "-y">>, FALSE, "none", <<"update">>),
       Cmd(<<"apt", "install", "-y", "nala">>, FALSE, "none", <<"update">>),
       Cmd(<<"nala", "update">>, FALSE, "none", <<"update">>) >>

\* Setup.upgrade, lines 126-131
upgrade_steps ==
    update_steps \o << Cmd(<<"nala", "upgrade", "-y">>, FALSE, "none", <<"upgrade">>) >>

\* The categories of lines 306-314 and 321-576 (a name stands for its packages)
RemoveCategories == <<"VIM", "OTHER">>
InstallCategories ==
    << "APT", "PACKAGE_TOOLS", "REQUIRED", "UTILITY", "ANALYZE", "NETWORK",
       "SPELLING", "ACCESSORY", "OFFICE", "GRAPHIC", "MULTIMEDIA", "CODEC",
       "COMPRESSION", "DEVELOPMENT_COMPILER", "DEVELOPMENT_PYTHON",
       "DEVELOPMENT_SHELL", "DEVELOPMENT_DOCS", "DEVELOPMENT_JAVA" >>

\* Setup.remove, lines 133-139
remove_steps(categories) ==
    [i \in 1..Len(categories) |->
        Cmd(<<"nala", "purge", "-y", categories[i]>>, FALSE, "none", <<"remove">>)]

\* Setup.install, lines 141-147
install_steps(categories) ==
    [i \in 1..Len(categories) |->
        Cmd(<<"nala", "install", "-y", categories[i]>>, FALSE, "none", <<"install">>)]

\* Setup.run_as_user, lines 85-102: check=True inside its own try block, which
\* catches subprocess.CalledProcessError only
run_as_user(cmd) == Cmd(cmd, TRUE, "cpe", <<"run_as_user">> \o cmd)

\* Setup.clean, lines 149-155
clean_steps ==
    << Cmd(<<"nala", "autoremove">>, FALSE, "none", <<"clean">>),
       Cmd(<<"nala", "autopurge">>, FALSE, "none", <<"clean">>),
       Cmd(<<"nala", "clean">>, FALSE, "none", <<"clean">>) >>

\* lines 163-171
conflicting_files ==
    << "/etc/apt/sources.list.d/vscode.list",
       "/etc/apt/sources.list.d/vscode.list.save",
       "/etc/apt/sources.list.d/vscode.sources",
       "/usr/share/keyrings/microsoft.gpg",
       "/usr/share/keyrings/gpgsecurity.microsoft.com.gpg",
       "/etc/apt/trusted.gpg.d/microsoft.gpg",
       "/etc/apt/keyrings/packages.microsoft.gpg" >>

\* Mutant of install_vscode_steps: gpg --dearmor run without check=True, so
\* that its non-zero exit status goes unnoticed.
install_vscode_steps_gpg_unchecked ==
    [i \in 1..Len(conflicting_files) |->
        Py(<<"os.remove", conflicting_files[i]>>, <<"os.remove", conflicting_files[i]>>)]
    \o << Py(<<"os.makedirs", "/etc/apt/keyrings">>, <<"install_vscode">>),
          Py(<<"urlopen", "microsoft.asc">>, <<"install_vscode">>),
          Cmd(<<"gpg", "--dearmor">>, FALSE, "exc", <<"install_vscode">>),
          Py(<<"write", "/etc/apt/keyrings/packages.microsoft.gpg">>, <<"install_vscode">>),
          Py(<<"os.chmod", "/etc/apt/keyrings/packages.microsoft.gpg">>, <<"install_vscode">>),
          Py(<<"write", "/etc/apt/sources.list.d/vscode.list">>, <<"install_vscode">>),
          Cmd(<<"rm", "-rf", "/var/lib/apt/lists/*">>, TRUE, "exc", <<"install_vscode">>),
          Cmd(<<"nala", "update">>, TRUE, "exc", <<"install_vscode">>),
          Cmd(<<"nala", "install", "-y", "code">>, TRUE, "exc", <<"install_vscode">>) >>

\* Setup.install_vscode, lines 157-206: each os.remove in a try block of its
\* own, everything from os.makedirs on in one try block
install_vscode_steps ==
    [i \in 1..Len(conflicting_files) |->
        Py(<<"os.remove", conflicting_files[i]>>, <<"os.remove", conflicting_files[i]>>)]
    \o << Py(<<"os.makedirs", "/etc/apt/keyrings">>, <<"install_vscode">>),
          Py(<<"urlopen", "microsoft.asc">>, <<"install_vscode">>),
          Cmd(<<"gpg", "--dearmor">>, TRUE, "exc", <<"install_vscode">>),
          Py(<<"write", "/etc/apt/keyrings/packages.microsoft.gpg">>, <<"install_vscode">>),
          Py(<<"os.chmod", "/etc/apt/keyrings/packages.microsoft.gpg">>, <<"install_vscode">>),
          Py(<<"write", "/etc/apt/sources.list.d/vscode.list">>, <<"install_vscode">>),
          Cmd(<<"rm", "-rf", "/var/lib/apt/lists/*">>, TRUE, "exc", <<"install_vscode">>),
          Cmd(<<"nala", "update">>, TRUE, "exc", <<"install_vscode">>),
          Cmd(<<"nala", "install", "-y", "code">>, TRUE, "exc", <<"install_vscode">>) >>

\* Setup.apply_sysctl_optimizations, lines 208-230
apply_sysctl_steps ==
    << Py(<<"write", "/etc/sysctl.d/99-zzz-sysctl.conf">>, <<"apply_sysctl">>),
       Py(<<"os.chmod", "/etc/sysctl.d/99-zzz-sysctl.conf">>, <<"apply_sysctl">>),
       Cmd(<<"sysctl", "--system">>, TRUE, "exc", <<"apply_sysctl">>) >>

\* Setup.activate_service, lines 269-288: one try block, which catches
\* subprocess.CalledProcessError only; the status command is run without
\* check and a non-zero status is logged as a warning
activate_service(service) ==
    << Cmd(<<"systemctl", "enable", "--now", service>>, TRUE, "cpe",
           <<"activate_service", service>>),
       Cmd(<<"systemctl", "restart", service>>, TRUE, "cpe",
           <<"activate_service", service>>),
       [Cmd(<<"systemctl", "--no-pager", "status", service, "-n", "0">>, FALSE,
            "cpe", <<"activate_service", service>>) EXCEPT !.warns = TRUE] >>

\* lines 615-621
services == <<"systemd-sysctl", "systemd-journald", "preload", "haveged", "ssh">>

RECURSIVE activate_all(_)
activate_all(svcs) ==
    IF svcs = <<>> THEN <<>>
    ELSE activate_service(Head(svcs)) \o activate_all(Tail(svcs))

\* main(), lines 298-624: the order of the `if args.X` blocks, and the steps
\* of each block
ActionOrder == <<"update", "remove", "install", "vscode", "clean", "system">>

Script(action) ==
    CASE action = "update"  -> upgrade_steps
      [] action = "remove"  -> update_steps \o remove_steps(RemoveCategories)
      [] action = "install" ->
            update_steps \o install_steps(InstallCategories)
            \o << run_as_user(<<"flatpak", "remotes">>),
                  run_as_user(<<"flatpak", "list">>),
                  run_as_user(<<"flatpak", "update", "-y">>) >>
      [] action = "vscode"  -> update_steps \o install_vscode_steps
      [] action = "clean"   -> update_steps \o clean_steps
      [] action = "system"  ->
            apply_sysctl_steps
            \o << Jrn(Storage, <<"persistent">>),
                  Jrn(SystemMaxUse, <<"1", "0", "0", "M">>),
                  Jrn(SystemMaxFileSize, <<"5", "0", "M">>),
                  Jrn(SyncIntervalSec, <<"5", "m">>) >>
            \o activate_all(services)

\* How a command can go: exit status 0, a non-zero exit status, or the program
\* cannot be started (subprocess.run raises FileNotFoundError, an OSError).
CmdOutcomes == {"ok", "nonzero", "cannot_start"}
PyOutcomes  == {"ok", "raises"}

\* What a step's outcome does to the control flow: "next" (go on), "leave_try"
\* (an exception caught by the except clause of the step's try block, which
\* logs it), "crash" (an exception nothing catches: traceback, exit status 1).
StepResult(st, outcome) ==
    CASE outcome = "ok" -> [flow |-> "next", logged |-> FALSE]
      [] outcome = "nonzero" ->
            IF st.check
            THEN IF st.catch \in {"cpe", "exc"}
                 THEN [flow |-> "leave_try", logged |-> TRUE]
                 ELSE [flow |-> "crash", logged |-> FALSE]
            ELSE [flow |-> "next", logged |-> st.warns]
      [] OTHER ->
            IF st.catch = "exc"
            THEN [flow |-> "leave_try", logged |-> TRUE]
            ELSE [flow |-> "crash", logged |-> FALSE]

\* The step that follows step i of a script (Len + 1: the action is over).
NextStep(script, i, flow) ==
    IF flow = "next" THEN i + 1
    ELSE IF \E j \in (i + 1)..Len(script) : script[j].try # script[i].try
         THEN CHOOSE j \in (i + 1)..Len(script) :
                  /\ script[j].try # script[i].try
                  /\ \A k \in (i + 1)..(j - 1) : script[k].try = script[i].try
         ELSE Len(script) + 1

NoStep == [kind |-> "none", op |-> <<>>, outcome |-> "ok", logged |-> FALSE,
           action |-> "none"]

(***************************************************************************)
(* Bounded inputs of main().                                               *)
(***************************************************************************)
MaxArgs == 2       \* arguments of a command line drawn freely from ArgPool

ArgPool == {"-u", "--remove", "--vscode", "-c", "-s", "-h", "--bogus"}

LongFlag(a) == "--" \o a

\* Every subset of the six action flags, in the order of the source ...
RECURSIVE FlagsOf(_, _)
FlagsOf(S, order) ==
    IF order = <<>> THEN <<>>
    ELSE (IF Head(order) \in S THEN <<LongFlag(Head(order))>> ELSE <<>>)
         \o FlagsOf(S, Tail(order))

\* ... and in the reverse order
Reverse(q) == [i \in 1..Len(q) |-> q[Len(q) + 1 - i]]

ActionSet == {ActionOrder[i] : i \in 1..Len(ActionOrder)}

CommandLines ==
    {FlagsOf(S, ActionOrder) : S \in SUBSET ActionSet}
    \cup {FlagsOf(S, Reverse(ActionOrder)) : S \in SUBSET ActionSet}
    \cup UNION {[1..n -> ArgPool] : n \in 0..MaxArgs}

\* A journald.conf as installed: the header and the commented defaults
DefaultConf ==
    Marker \o <<NL>>
    \o <<"#">> \o Storage \o <<"=", "auto", NL>>
    \o <<"#">> \o SystemMaxUse \o <<"=", NL>>

MInit ==
    /\ sys_argv \in {<<ProgName>> \o c : c \in CommandLines}
    /\ argv0 = sys_argv
    /\ uid \in {Root} \cup UserUids
    /\ pc = "cli_options"
    /\ args = {}
    /\ act = 0
    /\ step = 0
    /\ ran = <<>>
    /\ last = NoStep
    /\ exit = NoExit
    /\ sudo_calls = 0
    /\ refreshes = 0

\* main(), line 294
CliOptions ==
    /\ pc = "cli_options"
    /\ LET r == parse_args(Tail(sys_argv))
       IN  IF r.kind = "ok"
           THEN /\ args' = r.args
                /\ pc' = "check_argv"
                /\ UNCHANGED exit
           ELSE /\ pc' = "exited"
                /\ exit' = [status |-> r.status, cause |-> r.kind]
                /\ UNCHANGED args
    /\ UNCHANGED <<sys_argv, argv0, uid, act, step, ran, last, sudo_calls, refreshes>>
    /\ UNCHANGED <<jvars, fvars, rvars>>

\* main(), line 295
CheckArgv ==
    /\ pc = "check_argv"
    /\ IF check_argv(sys_argv)
       THEN /\ pc' = "exited"
            /\ exit' = [status |-> 1, cause |-> "usage"]
       ELSE /\ pc' = "elevate"
            /\ UNCHANGED exit
    /\ UNCHANGED <<sys_argv, argv0, uid, args, act, step, ran, last, sudo_calls,
                   refreshes>>
    /\ UNCHANGED <<jvars, fvars, rvars>>

\* main(), line 296.  A process started by sudo starts main() afresh.
ElevatePrivileges ==
    /\ pc = "elevate"
    /\ \E outcome \in ExecOutcomes :
         LET r == elevate_privileges(uid, sys_argv, outcome)
         IN  /\ pc' = r.pc
             /\ uid' = r.uid
             /\ sys_argv' = r.argv
             /\ exit' = r.exit
             /\ sudo_calls' = sudo_calls + r.execs
             /\ act' = IF r.pc = "actions" THEN 1 ELSE act
             /\ args' = IF r.pc = "cli_options" THEN {} ELSE args
    /\ UNCHANGED <<argv0, step, ran, last, refreshes>>
    /\ UNCHANGED <<jvars, fvars, rvars>>

\* The `if args.X:` tests of main(), lines 298, 303, 318, 592, 598, 604
Selected(a, namespace) == a \in namespace

\* One `if args.X:` of main(): the block is entered or passed over.
TestFlag ==
    /\ pc = "actions" /\ step = 0 /\ act \in 1..Len(ActionOrder)
    /\ IF Selected(ActionOrder[act], args)
       THEN /\ ran' = Append(ran, [action |-> ActionOrder[act], uid |-> uid])
            /\ step' = 1
            /\ UNCHANGED act
       ELSE /\ act' = act + 1
            /\ UNCHANGED <<ran, step>>
    /\ UNCHANGED <<sys_argv, argv0, uid, pc, args, last, exit, sudo_calls, refreshes>>
    /\ UNCHANGED <<jvars, fvars, rvars>>

\* The scripts, computed once
Scripts == [a \in {ActionOrder[i] : i \in 1..Len(ActionOrder)} |-> Script(a)]

CurrentScript == Scripts[ActionOrder[act]]
CurrentStep == CurrentScript[step]

\* The control flow after a step of the running action.
Flow(flow) ==
    IF flow = "crash"
    THEN /\ pc' = "exited"
         /\ exit' = [status |-> 1, cause |-> "traceback"]
         /\ UNCHANGED <<act, step>>
    ELSE /\ LET n == NextStep(CurrentScript, step, flow)
            IN  IF n > Len(CurrentScript)
                THEN act' = act + 1 /\ step' = 0
                ELSE step' = n /\ UNCHANGED act
         /\ UNCHANGED <<pc, exit>>

Running == pc = "actions" /\ act \in 1..Len(ActionOrder) /\ step >= 1

\* subprocess.run of one external command
RunCommand ==
    /\ Running /\ CurrentStep.kind = "cmd"
    /\ \E outcome \in CmdOutcomes :
         LET r == StepResult(CurrentStep, outcome)
         IN  /\ last' = [kind |-> "cmd", op |-> CurrentStep.op, outcome |-> outcome,
                         logged |-> r.logged, action |-> ActionOrder[act]]
             /\ Flow(r.flow)
             /\ refreshes' = IF CurrentStep = update_steps[Len(update_steps)]
                                 /\ r.flow = "next"
                              THEN refreshes + 1 ELSE refreshes
    /\ UNCHANGED <<sys_argv, argv0, uid, args, ran, sudo_calls>>
    /\ UNCHANGED <<jvars, fvars, rvars>>

\* one file or network operation of install_vscode or apply_sysctl_optimizations
RunPython ==
    /\ Running /\ CurrentStep.kind = "py"
    /\ \E outcome \in PyOutcomes :
         LET r == StepResult(CurrentStep, outcome)
         IN  /\ last' = [kind |-> "py", op |-> CurrentStep.op, outcome |-> outcome,
                         logged |-> r.logged, action |-> ActionOrder[act]]
             /\ Flow(r.flow)
    /\ UNCHANGED <<sys_argv, argv0, uid, args, ran, sudo_calls, refreshes>>
    /\ UNCHANGED <<jvars, fvars, rvars>>

\* one set_journald_property call of main(), lines 609-612 (its return value is
\* not looked at)
RunJournald ==
    /\ Running /\ CurrentStep.kind = "journald"
    /\ \E io \in EditOutcomes :
         LET r == set_journald_property(config, backup, CurrentStep.key,
                                        CurrentStep.value, io)
         IN  /\ config' = r.config
             /\ backup' = r.backup
             /\ hist' = Append(hist, [key |-> CurrentStep.key,
                                      value |-> CurrentStep.value,
                                      io |-> FailingStep(config, backup,
                                                         CurrentStep.value, io),
                                      ret |-> r.ret, log |-> r.log,
                                      pre |-> config, preBackup |-> backup])
             /\ last' = [kind |-> "journald", op |-> CurrentStep.op,
                         outcome |-> IF r.ret THEN "ok" ELSE "raises",
                         logged |-> ~r.ret, action |-> ActionOrder[act]]
    /\ Flow("next")
    /\ UNCHANGED <<sys_argv, argv0, uid, args, ran, sudo_calls, refreshes, orig>>
    /\ UNCHANGED <<fvars, rvars>>

\* main() returns, line 626
MainEnd ==
    /\ pc = "actions" /\ act = Len(ActionOrder) + 1
    /\ pc' = "exited"
    /\ exit' = [status |-> 0, cause |-> "end"]
    /\ UNCHANGED <<sys_argv, argv0, uid, args, act, step, ran, last, sudo_calls,
                   refreshes>>
    /\ UNCHANGED <<jvars, fvars, rvars>>

MNext ==
    \/ CliOptions
    \/ CheckArgv
    \/ ElevatePrivileges
    \/ TestFlag
    \/ RunCommand
    \/ RunPython
    \/ RunJournald
    \/ MainEnd

(***************************************************************************)
(* The preference-file writer: src/firefox_setup.py.                       *)
(***************************************************************************)
\* line 47
true  == "true"
false == "false"

\* The calls of the body of firefox_cfg_setup, lines 48-157, in program order.
Comment(text)        == [fn |-> "comment", text |-> text]
LockPref(key, value) == [fn |-> "lock_pref", key |-> key, value |-> value]
Str(s) == [str |-> s]                    \* a str argument
Num(n) == [int |-> n]                    \* an int argument

cfg_calls ==
    << Comment("Firefox configuration file"),
       Comment("General tweaks"),
       LockPref("network.captive-portal-service.enabled", Str(false)),
       LockPref("network.notify.checkForProxies", Str(false)),
       Comment("Browser cache"),
       LockPref("browser.cache.disk.parent_directory", Str("\"/dev/shm/ffcache\"")),
       LockPref("browser.cache.disk.capacity", Num(8192000)),
       LockPref("browser.cache.disk.smart_size.enabled", Str(false)),
       LockPref("browser.frecency_half_life_hours", Num(18)),
       LockPref("browser.max_shutdown_io_lag", Num(16)),
       LockPref("browser.cache.memory.capacity", Num(2097152)),
       LockPref("browser.cache.memory.max_entry_size", Num(327680)),
       LockPref("browser.cache.disk.metadata_memory_limit", Num(15360)),
       Comment("GFX rendering tweaks"),
       LockPref("gfx.canvas.accelerated", Str(true)),
       LockPref("gfx.canvas.accelerated.cache-items", Num(32768)),
       LockPref("gfx.canvas.accelerated.cache-size", Num(4096)),
       LockPref("gfx.content.skia-font-cache-size", Num(80)),
       LockPref("gfx.webrender.all", Str(true)),
       LockPref("gfx.webrender.compositor", Str(true)),
       LockPref("gfx.webrender.compositor.force-enabled", Str(true)),
       LockPref("gfx.webrender.enabled", Str(true)),
       LockPref("gfx.webrender.precache-shaders", Str(true)),
       LockPref("gfx.webrender.program-binary-disk", Str(true)),
       LockPref("gfx.webrender.software.opengl", Str(true)),
       LockPref("image.cache.size", Num(10485760)),
       LockPref("image.mem.decode_bytes_at_a_time", Num(65536)),
       LockPref("image.mem.shared.unmap.min_expiration_ms", Num(120000)),
       LockPref("layers.acceleration.force-enabled", Str(true)),
       LockPref("layers.gpu-process.enabled", Str(true)),
       LockPref("layers.gpu-process.force-enabled", Str(true)),
       LockPref("layers.mlgpu.enabled", Str(true)),
       LockPref("media.ffmpeg.vaapi.enabled", Str(true)),
       LockPref("media.gpu-process-decoder", Str(true)),
       LockPref("media.memory_cache_max_size", Num(1048576)),
       LockPref("media.memory_caches_combined_limit_kb", Num(3145728)),
       LockPref("media.hardware-video-decoding.force-enabled", Str(true)),
       LockPref("webgl.force-enabled", Str(true)),
       LockPref("webgl.msaa-force", Str(true)),
       LockPref("webgl.max-size", Num(16384)),
       LockPref("dom.webgpu.enabled", Str(true)),
       Comment("Increase predictive network operations"),
       LockPref("network.dns.disablePrefetchFromHTTPS", Str(false)),
       LockPref("network.dnsCacheEntries", Num(20000)),
       LockPref("network.dnsCacheExpiration", Num(3600)),
       LockPref("network.dnsCacheExpirationGracePeriod", Num(240)),
       LockPref("network.predictor.enable-hover-on-ssl", Str(true)),
       LockPref("network.predictor.enable-prefetch", Str(true)),
       LockPref("network.predictor.preconnect-min-confidence", Num(20)),
       LockPref("network.predictor.prefetch-force-valid-for", Num(3600)),
       LockPref("network.predictor.prefetch-min-confidence", Num(30)),
       LockPref("network.predictor.prefetch-rolling-load-count", Num(120)),
       LockPref("network.predictor.preresolve-min-confidence", Num(10)),
       Comment("Faster SSL"),
       LockPref("network.ssl_tokens_cache_capacity", Num(32768)),
       Comment("Disable network seperations"),
       LockPref("fission.autostart", Str(false)),
       LockPref("privacy.partition.network_state", Str(false)),
       Comment("Reduce the number of processes"),
       LockPref("dom.ipc.processCount", Num(1)),
       LockPref("dom.ipc.processCount.webIsolated", Num(1)),
       Comment("Enable HTTP pipelining"),
       LockPref("network.http.pipelining", Str(true)),
       LockPref("network.http.proxy.pipelining", Str(true)),
       LockPref("network.http.proxy.pipelining.ssl", Str(true)),
       LockPref("network.http.pipelining.maxrequests", Num(25)),
       Comment("Reduce initial paint delay"),
       LockPref("nglayout.initialpaint.delay", Num(0)),
       LockPref("nglayout.initialpaint.delay_in_oopif", Num(0)),
       Comment("DNS and TRR settings"),
       LockPref("network.dns.disableIPv6", Str(true)),
       LockPref("network.trr.mode", Num(2)),
       Comment("Privacy enhancements"),
       LockPref("network.http.http3.enabled", Str(true)),
       LockPref("network.http.referer.XOriginPolicy", Num(2)),
       LockPref("network.http.referer.XOriginTrimmingPolicy", Num(2)),
       LockPref("toolkit.telemetry.enabled", Str(false)),
       LockPref("datareporting.healthreport.uploadEnabled", Str(false)),
       Comment("Connection limits"),
       LockPref("network.http.speculative-parallel-limit", Num(16)),
       LockPref("network.http.max-persistent-connections-per-server", Num(10)),
       LockPref("network.http.max-connections", Num(1800)),
       Comment("User interface preferences"),
       LockPref("ui.prefersReducedMotion", Num(1)),
       LockPref("browser.uidensity", Num(1)),
       LockPref("browser.compactmode.show", Str(true)),
       LockPref("toolkit.cosmeticAnimations.enabled", Str(false)),
       LockPref("browser.ml.enable", Str(false)),
       LockPref("browser.ml.chat.enabled", Str(false)),
       LockPref("browser.ml.chat.menu", Str(false)),
       LockPref("browser.tabs.groups.smart.enabled", Str(false)),
       LockPref("browser.ml.linkPreview.enabled", Str(false)),
       Comment("Media preferences"),
       LockPref("media.peerconnection.enabled", Str(false)),
       LockPref("media.autoplay.default", Num(2)) >>

\* The text an f-string puts for {value}: str(value)
Format(value) ==
    IF "int" \in DOMAIN value THEN ToString(value.int) ELSE value.str

\* Mutant of comment: a second newline written before the comment.
comment_two_newlines(text) == <<NL, NL, "//", " ", text, NL>>

\* comment, lines 25-27: f.write(f"\n// {text}\n")
comment(text) == <<NL, "//", " ", text, NL>>

\* lock_pref, lines 30-33: f.write(f'lockPref("{key}", {value});\n')
lock_pref(key, value) ==
    <<"lockPref(", "\"", key, "\"", ", ", Format(value), ");", NL>>

\* firefox_autoconfig_setup, lines 36-41
autoconfig_text ==
    <<"pref(\"general.config.filename\", \"", "firefox.cfg", "\");", NL,
      "pref(\"general.config.obscure_value\", 0);", NL>>

\* A firefox.cfg left by an earlier run or by the distribution
OldCfg == <<"//", " ", "old", NL, NL, NL, "lockPref(", "\"", "x", "\"", ", ", "1", ");", NL>>

FInit ==
    /\ ff_pc = "elevate"
    /\ ff_uid \in {Root} \cup UserUids
    /\ ff_i = 0
    /\ ff_auto \in {NoFile, <<>>}
    /\ ff_cfg \in {NoFile, OldCfg}

\* elevate_privileges, lines 18-22: no try block around os.execvp
FfElevate ==
    /\ ff_pc = "elevate"
    /\ IF ff_uid = Root
       THEN ff_pc' = "autoconfig" /\ UNCHANGED ff_uid
       ELSE \E outcome \in ExecOutcomes :
              IF outcome = "sudo_runs"
              THEN ff_pc' = "elevate" /\ ff_uid' = Root
              ELSE ff_pc' = "exited" /\ UNCHANGED ff_uid
    /\ UNCHANGED <<ff_i, ff_auto, ff_cfg>>
    /\ UNCHANGED <<jvars, mvars, rvars>>

\* main(), line 165
FfAutoconfig ==
    /\ ff_pc = "autoconfig"
    /\ ff_auto' = autoconfig_text
    /\ ff_pc' = "open"
    /\ UNCHANGED <<ff_uid, ff_i, ff_cfg>>
    /\ UNCHANGED <<jvars, mvars, rvars>>

\* firefox_cfg_setup, line 46: open(config, "w") empties the file
FfOpen ==
    /\ ff_pc = "open"
    /\ ff_cfg' = <<>>
    /\ ff_i' = 0
    /\ ff_pc' = "write"
    /\ UNCHANGED <<ff_uid, ff_auto>>
    /\ UNCHANGED <<jvars, mvars, rvars>>

\* one comment(f, ..) call of lines 48-157
FfComment ==
    /\ ff_pc = "write" /\ ff_i < Len(cfg_calls)
    /\ cfg_calls[ff_i + 1].fn = "comment"
    /\ ff_cfg' = ff_cfg \o comment(cfg_calls[ff_i + 1].text)
    /\ ff_i' = ff_i + 1
    /\ UNCHANGED <<ff_pc, ff_uid, ff_auto>>
    /\ UNCHANGED <<jvars, mvars, rvars>>

\* one lock_pref(f, ..) call of lines 48-157
FfLockPref ==
    /\ ff_pc = "write" /\ ff_i < Len(cfg_calls)
    /\ cfg_calls[ff_i + 1].fn = "lock_pref"
    /\ ff_cfg' = ff_cfg \o lock_pref(cfg_calls[ff_i + 1].key, cfg_calls[ff_i + 1].value)
    /\ ff_i' = ff_i + 1
    /\ UNCHANGED <<ff_pc, ff_uid, ff_auto>>
    /\ UNCHANGED <<jvars, mvars, rvars>>

\* the with block of firefox_cfg_setup ends, the file is closed
FfClose ==
    /\ ff_pc = "write" /\ ff_i = Len(cfg_calls)
    /\ ff_pc' = "done"
    /\ UNCHANGED <<ff_uid, ff_i, ff_auto, ff_cfg>>
    /\ UNCHANGED <<jvars, mvars, rvars>>

FNext ==
    \/ FfElevate
    \/ FfAutoconfig
    \/ FfOpen
    \/ FfComment
    \/ FfLockPref
    \/ FfClose

(***************************************************************************)
(* Harness for set_journald_property: any initial journald.conf of the     *)
(* bounded pool below, no backup yet, then any calls.                      *)
(***************************************************************************)
LinePool ==
    { Marker,                                         \* [Journal]
      <<"#", " ">> \o Marker,                         \* # [Journal]
      <<"[", "Other", "]">>,                          \* [Other]
      Storage \o <<"=", "auto">>,                     \* Storage=auto
      <<" ", "#">> \o Storage \o <<"=", "auto">>,     \*  #Storage=auto
      SystemMaxUse \o <<"=", "5", "M">> }             \* SystemMaxUse=5M

LineSeqs == UNION {[1..n -> LinePool] : n \in 0..MaxLines}

Terminated(ls) == writelines([i \in 1..Len(ls) |-> Append(ls[i], NL)])

InitialFiles ==
    {Terminated(ls) : ls \in LineSeqs}
    \cup {SubSeq(Terminated(ls), 1, Len(Terminated(ls)) - 1) :
            ls \in LineSeqs \ {<<>>}}

Keys == {Storage, SystemMaxUse}

Values ==
    { <<"persistent">>, <<"1", "0", "0", "M">>,       \* valid
      <<"bogus!!">> }                                 \* invalid

JInit ==
    /\ config \in InitialFiles \cup {NoFile}
    /\ backup = NoFile
    /\ orig = config
    /\ hist = <<>>

\* One call, on the files as they are
JApply(key, value, io) ==
    LET r == set_journald_property(config, backup, key, value, io)
    IN  /\ config' = r.config
        /\ backup' = r.backup
        /\ hist' = Append(hist, [key |-> key, value |-> value,
                                 io |-> FailingStep(config, backup, value, io),
                                 ret |-> r.ret, log |-> r.log,
                                 pre |-> config, preBackup |-> backup])
        /\ UNCHANGED orig

JCall ==
    /\ Len(hist) < MaxCalls
    /\ \E key \in Keys, value \in Values, io \in EditOutcomes :
         JApply(key, value, io)
    /\ UNCHANGED <<mvars, fvars, rvars>>

\* The harness on the installed file lets every filesystem step fail
JCallIo ==
    /\ Len(hist) < MaxCalls
    /\ \E key \in Keys, value \in Values, io \in IoOutcomes :
         JApply(key, value, io)
    /\ UNCHANGED <<mvars, fvars, rvars>>

(***************************************************************************)
(* Harness for the validation of the value (lines 235-238): one call with  *)
(* any string over the tokens below as the value.                          *)
(***************************************************************************)
MaxValueLen == 3   \* tokens of the value passed

\* two digits, two unit letters, a named value, a token that is neither,
\* a blank and a newline
ValueTokens == {"0", "1", "M", "s", "persistent", "always", " ", NL}

ValuePool == UNION {[1..n -> ValueTokens] : n \in 0..MaxValueLen}

JCheckValue ==
    /\ hist = <<>>
    /\ \E value \in ValuePool, io \in IoOutcomes : JApply(Storage, value, io)
    /\ UNCHANGED <<mvars, fvars, rvars>>


(***************************************************************************)
(* Harness for the routines that catch their failures: install_vscode      *)
(* (lines 157-206) and the loop of main() over activate_service (lines     *)
(* 622-623 and 269-288), each run on its own with every outcome of every   *)
(* step, the steps run and the lines logged recorded.                      *)
(***************************************************************************)
Routines == {"install_vscode", "activate_services"}

RoutineScript(r) ==
    IF r = "install_vscode" THEN install_vscode_steps ELSE activate_all(services)

\* The line a step leaves in the log, by level (the step and subsection
\* headings are left out).  A caught exception: the error of the except
\* clause (lines 178, 206, 288).  The last step of a try block done: "Removed
\* conflicting file" (info, line 176), "VS Code installed successfully"
\* (success, line 204), and for activate_service the success of line 282 when
\* the status command returned 0, the warning of line 284 when it did not.
LogLines(script, i, outcome) ==
    LET st == script[i]
        r  == StepResult(st, outcome)
        endOfTry == i = Len(script) \/ script[i + 1].try # st.try
    IN  IF r.flow = "leave_try"
        THEN <<[level |-> "error", try |-> st.try]>>
        ELSE IF r.flow = "next" /\ endOfTry
        THEN <<[level |-> IF st.try[1] = "os.remove" THEN "info"
                          ELSE IF r.logged THEN "warning"
                          ELSE "success",
                try |-> st.try]>>
        ELSE <<>>

RInit ==
    /\ rt_routine \in Routines
    /\ rt_state = "running"
    /\ rt_step = 1
    /\ rt_trace = <<>>
    /\ rt_log = <<>>

RIdle ==
    /\ rt_routine = "none"
    /\ rt_state = "idle"
    /\ rt_step = 0
    /\ rt_trace = <<>>
    /\ rt_log = <<>>

\* One step of the routine, with the outcome drawn.
RtStep(outcome) ==
    LET script == RoutineScript(rt_routine)
        st     == script[rt_step]
        r      == StepResult(st, outcome)
    IN  /\ rt_trace' = Append(rt_trace, [op |-> st.op, try |-> st.try,
                                         outcome |-> outcome])
        /\ rt_log' = rt_log \o LogLines(script, rt_step, outcome)
        /\ IF r.flow = "crash"
           THEN rt_state' = "raised" /\ UNCHANGED rt_step
           ELSE LET n == NextStep(script, rt_step, r.flow)
                IN  /\ rt_step' = n
                    /\ rt_state' = IF n > Len(script) THEN "returned" ELSE "running"
        /\ UNCHANGED rt_routine

\* subprocess.run of one external command of the routine
RtCommand ==
    /\ rt_state = "running"
    /\ RoutineScript(rt_routine)[rt_step].kind = "cmd"
    /\ \E outcome \in CmdOutcomes : RtStep(outcome)
    /\ UNCHANGED <<jvars, mvars, fvars>>

\* one file or network operation of the routine
RtPython ==
    /\ rt_state = "running"
    /\ RoutineScript(rt_routine)[rt_step].kind = "py"
    /\ \E outcome \in PyOutcomes : RtStep(outcome)
    /\ UNCHANGED <<jvars, mvars, fvars>>

RNext ==
    \/ RtCommand
    \/ RtPython

(***************************************************************************)
(* The specifications.  Each runs one program; the variables of the other  *)
(* programs keep their initial values.                                     *)
(***************************************************************************)
MIdle ==
    /\ sys_argv = <<ProgName>>
    /\ argv0 = sys_argv
    /\ uid = Root
    /\ pc = "idle"
    /\ args = {}
    /\ act = 0
    /\ step = 0
    /\ ran = <<>>
    /\ last = NoStep
    /\ exit = NoExit
    /\ sudo_calls = 0
    /\ refreshes = 0

FIdle ==
    /\ ff_pc = "idle"
    /\ ff_uid = Root
    /\ ff_i = 0
    /\ ff_auto = NoFile
    /\ ff_cfg = NoFile

\* The files set_journald_property finds when main() of linuxmint-setup.py runs
JInstalled ==
    /\ config \in {DefaultConf, NoFile}
    /\ backup = NoFile
    /\ orig = config
    /\ hist = <<>>

\* linuxmint-setup.py, from the command line to the end of the process
Init == MInit /\ JInstalled /\ FIdle /\ RIdle
Next == MNext
Spec == Init /\ [][Next]_vars

\* set_journald_property on any initial file
InitJournald == JInit /\ MIdle /\ FIdle /\ RIdle
NextJournald == JCall
SpecJournald == InitJournald /\ [][NextJournald]_vars

\* set_journald_property on the installed file, every filesystem step failing
InitJournaldIo == JInstalled /\ MIdle /\ FIdle /\ RIdle
NextJournaldIo == JCallIo
SpecJournaldIo == InitJournaldIo /\ [][NextJournaldIo]_vars

\* set_journald_property on the installed file, with any string as the value
InitValues ==
    /\ config = DefaultConf /\ backup = NoFile /\ orig = config /\ hist = <<>>
    /\ MIdle /\ FIdle /\ RIdle
NextValues == JCheckValue
SpecValues == InitValues /\ [][NextValues]_vars

\* firefox_setup.py
JIdle ==
    /\ config = NoFile
    /\ backup = NoFile
    /\ orig = config
    /\ hist = <<>>

InitFirefox == FInit /\ MIdle /\ JIdle /\ RIdle
NextFirefox == FNext
SpecFirefox == InitFirefox /\ [][NextFirefox]_vars

\* install_vscode, or the loop over activate_service, run on its own
InitRoutines == RInit /\ MIdle /\ JIdle /\ FIdle
NextRoutines == RNext
SpecRoutines == InitRoutines /\ [][NextRoutines]_vars

(***************************************************************************)
(* Properties of set_journald_property, over the call history.             *)
(***************************************************************************)
Last == hist[Len(hist)]

\* The files as call i left them.
PostConfig(i) == IF i = Len(hist) THEN config ELSE hist[i + 1].pre
PostBackup(i) == IF i = Len(hist) THEN backup ELSE hist[i + 1].preBackup

\* The lines of a content that assign key (active assignments only).
ActiveAssignments(content, key) ==
    LET ls == readlines(content)
    IN  {i \in 1..Len(ls) : startswith(strip(ls[i]), key \o <<"=">>)}

IsHeaderLine(line) == startswith(strip(line), <<"[">>)

\* Line i lies in the [Journal] section: the nearest header line above it is
\* the line [Journal].
InJournalSection(ls, i) ==
    \E j \in 1..(i - 1) :
        /\ strip(ls[j]) = Marker
        /\ \A k \in (j + 1)..(i - 1) : ~IsHeaderLine(ls[k])

\* The content is empty or its last line ends with a newline.
EndsWithNewline(content) == content = <<>> \/ content[Len(content)] = NL

\* C1 as claimed: after set_journald_property(key, v1) and then
\* set_journald_property(key, v2), both successful and v1 # v2, the file holds
\* exactly one line assigning key, that line is key=v2, and it lies inside the
\* [Journal] section.  (Stated for the initial files whose last line ends with
\* a newline.)
C1_AsClaimed ==
    (/\ Len(hist) >= 2
     /\ EndsWithNewline(orig)
     /\ Last.ret /\ hist[Len(hist) - 1].ret
     /\ Last.key = hist[Len(hist) - 1].key
     /\ Last.value # hist[Len(hist) - 1].value)
    => LET ls == readlines(config)
           as == ActiveAssignments(config, Last.key)
       IN  /\ Cardinality(as) = 1
           /\ \A i \in as : /\ ls[i] = Assignment(Last.key, Last.value)
                            /\ InJournalSection(ls, i)

\* C2: a call whose value fails the allow-pattern returns False, logs the
\* invalid-value error and nothing else, and leaves the config file and the
\* (absent or present) backup file exactly as they were.
C2_InvalidValueTouchesNothing ==
    \A i \in 1..Len(hist) :
        ~val_match(hist[i].value)
        => /\ hist[i].ret = FALSE
           /\ hist[i].log = <<LogInvalid>>
           /\ PostConfig(i) = hist[i].pre
           /\ PostBackup(i) = hist[i].preBackup

\* C2's case: an invalid value given while the config file exists and no
\* backup does (a call past validation would have created one).
C2_Witness ==
    /\ hist # <<>>
    /\ ~val_match(Last.value)
    /\ Last.pre \notin {NoFile, <<>>}
    /\ Last.preBackup = NoFile

\* C3: the backup is created by the first call that gets past validation
\* (where there is a config file to copy and the copy does not fail), before
\* that call rewrites the config file, and is never written again: whenever it
\* exists it holds the config file's content from before the first edit.
C3_BackupOnceBeforeFirstEdit ==
    /\ backup # NoFile => backup = orig
    /\ \A i \in 1..Len(hist) :
         LET h == hist[i]
         IN  /\ h.preBackup # NoFile => PostBackup(i) = h.preBackup
             /\ (/\ val_match(h.value) /\ h.pre # NoFile
                 /\ h.io # "copy_raises")
                   => PostBackup(i) = orig
             /\ (h.preBackup = NoFile /\ PostBackup(i) # NoFile)
                   => (val_match(h.value) /\ h.log[1] = LogBackup)
             /\ PostConfig(i) # h.pre => PostBackup(i) # NoFile

\* C3's case: a second successful call, made when the config file no longer
\* holds its original content, and the backup still holds the original.
C3_Witness ==
    /\ Len(hist) >= 2
    /\ Last.ret /\ hist[Len(hist) - 1].ret
    /\ Last.pre # orig
    /\ Last.preBackup = orig
    /\ backup = orig

\* C4 as claimed: with no [Journal] marker in the file, a successful call
\* leaves "[Journal]\n", "key=value\n" and then the whole previous content.
C4_AsClaimed ==
    (/\ hist # <<>>
     /\ Last.ret
     /\ ~contains(Last.pre, Marker))
    => config = Marker \o <<NL>> \o Assignment(Last.key, Last.value) \o Last.pre

\* A line assigns key, active or commented: after leading white space and an
\* optional "#", it starts with key=.
AssignsKey(line, key) ==
    LET t == lstrip(line)
        u == IF t # <<>> /\ Head(t) = "#" THEN Tail(t) ELSE t
    IN  startswith(u, key \o <<"=">>)

\* C4 as amended: with no [Journal] marker in the file, a successful call
\* leaves "[Journal]\n", "key=value\n" and then every previous line that does
\* not assign the key, unchanged and in the original order; the previous lines
\* that assign the key (active or commented) are gone.
C4_HeaderThenOtherLines ==
    (/\ hist # <<>>
     /\ Last.ret
     /\ ~contains(Last.pre, Marker))
    => config = Marker \o <<NL>> \o Assignment(Last.key, Last.value)
                \o writelines(SelectSeq(readlines(Last.pre),
                                        LAMBDA l : ~AssignsKey(l, Last.key)))

\* C4's case: a successful call on a file without marker that holds a line
\* assigning the key and a line that does not.
C4_Witness ==
    /\ hist # <<>>
    /\ Last.ret
    /\ ~contains(Last.pre, Marker)
    /\ \E i, j \in 1..Len(readlines(Last.pre)) :
         /\ AssignsKey(readlines(Last.pre)[i], Last.key)
         /\ ~AssignsKey(readlines(Last.pre)[j], Last.key)

\* C10 as claimed: with the marker in the file, a successful call adds exactly
\* one key=value line, and that line stands immediately after the first line
\* in which the marker occurs, also when the marker occurs in several lines.
\* (Stated for the files whose last line ends with a newline.)
C10_AsClaimed ==
    (/\ hist # <<>>
     /\ Last.ret
     /\ EndsWithNewline(Last.pre)
     /\ contains(Last.pre, Marker))
    => LET ls    == readlines(config)
           added == {i \in 1..Len(ls) : ls[i] = Assignment(Last.key, Last.value)}
           first == CHOOSE i \in 1..Len(ls) :
                        /\ contains(ls[i], Marker)
                        /\ \A j \in 1..(i - 1) : ~contains(ls[j], Marker)
       IN  added = {first + 1}

\* The sequence q without the elements at the indices of S.
Without(q, S) ==
    LET keep == SelectSeq([i \in 1..Len(q) |-> i], LAMBDA i : i \notin S)
    IN  [k \in 1..Len(keep) |-> q[keep[k]]]

\* The file has a [Journal] section: a line that is the header [Journal].
HasJournalHeader(content) ==
    \E i \in 1..Len(readlines(content)) : strip(readlines(content)[i]) = Marker

\* C11 as claimed: a successful set_journald_property(key, value) leaves the
\* lines of the file that do not assign the key, byte-identical and in their
\* order, and adds exactly one line, key=value (two lines, the header
\* [Journal] and key=value, when the file had no [Journal] section); the
\* lines that assigned the key, active or commented, are gone.  (Stated for
\* the files whose last line ends with a newline.)
C11_AsClaimed ==
    (/\ hist # <<>>
     /\ Last.ret
     /\ EndsWithNewline(Last.pre))
    => LET kept == SelectSeq(readlines(Last.pre),
                             LAMBDA l : ~AssignsKey(l, Last.key))
           ls   == readlines(config)
       IN  \E p \in 1..Len(ls) :
              /\ ls[p] = Assignment(Last.key, Last.value)
              /\ IF HasJournalHeader(Last.pre)
                 THEN Without(ls, {p}) = kept
                 ELSE /\ p >= 2
                      /\ ls[p - 1] = Marker \o <<NL>>
                      /\ Without(ls, {p - 1, p}) = kept

\* C12 as claimed: the value is accepted if and only if the whole string is
\* one or more digits optionally followed by one unit letter, or the whole
\* string is one of the named values; in particular a string with a trailing
\* newline is rejected.
C12_AsClaimed ==
    hist # <<>>
    => ((Last.log # <<LogInvalid>>)
            <=> (MatchNumeric(Last.value) \/ MatchKeyword(Last.value)))

\* A filesystem step of call h fails: the backup copy raises, the read raises
\* (in both cases also because there is no config file), or the rewrite raises.
StepFails(h) == h.io \in {"copy_raises", "read_raises", "write_raises"}

\* C13: every call returns (True or False, no exception leaves it); a call
\* with a valid value in which a filesystem step fails returns False and its
\* last log line is the error "Failed to modify journald.conf"; every call
\* that returns False has logged an error; and a call returns True only when
\* no step failed: the backup exists, the file read has been rewritten with
\* the patched content and the success line is logged.
C13_FailureCaughtAndReported ==
    \A i \in 1..Len(hist) :
        LET h == hist[i]
        IN  /\ h.ret \in BOOLEAN
            /\ (val_match(h.value) /\ StepFails(h))
                  => (h.ret = FALSE /\ h.log[Len(h.log)] = LogFailed)
            /\ h.ret = FALSE => h.log[Len(h.log)] \in {LogInvalid, LogFailed}
            /\ h.ret = TRUE
                  => /\ val_match(h.value) /\ ~StepFails(h)
                     /\ PostBackup(i) # NoFile
                     /\ PostConfig(i) = Patched(h.pre, h.key, h.value)
                     /\ h.log[Len(h.log)] = LogSet

\* C13's case: a call whose backup copy failed and a later call whose rewrite
\* failed after the backup was made.
C13_Witness ==
    \E i, j \in 1..Len(hist) :
        /\ i < j
        /\ val_match(hist[i].value) /\ hist[i].pre # NoFile
        /\ hist[i].io = "copy_raises"
        /\ hist[i].ret = FALSE
        /\ val_match(hist[j].value) /\ hist[j].io = "write_raises"
        /\ hist[j].ret = FALSE
        /\ backup # NoFile

\* C16 as claimed: a successful call repeated with the same key and the same
\* value leaves the config file as the first of the two calls left it, and
\* the backup as it was.
C16_AsClaimed ==
    (/\ Len(hist) >= 2
     /\ Last.ret /\ hist[Len(hist) - 1].ret
     /\ Last.key = hist[Len(hist) - 1].key
     /\ Last.value = hist[Len(hist) - 1].value)
    => (config = Last.pre /\ backup = Last.preBackup)

\* The text of a line, without the newline that ends it.
TextOf(line) ==
    IF line # <<>> /\ line[Len(line)] = NL
    THEN SubSeq(line, 1, Len(line) - 1) ELSE line

\* C17 as claimed: after a successful call, whatever the file was (its last
\* line with or without a newline), some line of the file is key=value and
\* nothing else, and every section-header line of the file as it was is still
\* a line of the file, with the same text.
C17_AsClaimed ==
    (hist # <<>> /\ Last.ret)
    => LET before == readlines(Last.pre)
           after  == readlines(config)
       IN  /\ \E j \in 1..Len(after) :
                after[j] = Assignment(Last.key, Last.value)
           /\ \A i \in 1..Len(before) :
                IsHeaderLine(before[i])
                => \E j \in 1..Len(after) : TextOf(after[j]) = TextOf(before[i])

\* The header lines [Journal] of a content.
JournalHeaders(content) ==
    {i \in 1..Len(readlines(content)) : strip(readlines(content)[i]) = Marker}

\* C18 as claimed: after successful calls for pairwise different keys on a
\* file with one [Journal] header, every patched key has exactly one
\* assignment, with the value of its call, and the assignments are the lines
\* directly below the header, the key of the last call first.
C18_AsClaimed ==
    (/\ Len(hist) >= 2
     /\ \A i \in 1..Len(hist) : hist[i].ret
     /\ \A i, j \in 1..Len(hist) : i # j => hist[i].key # hist[j].key
     /\ Cardinality(JournalHeaders(orig)) = 1)
    => LET ls == readlines(config)
           n  == Len(hist)
       IN  /\ \A i \in 1..n :
                /\ Cardinality(ActiveAssignments(config, hist[i].key)) = 1
                /\ \A a \in ActiveAssignments(config, hist[i].key) :
                     ls[a] = Assignment(hist[i].key, hist[i].value)
           /\ Cardinality(JournalHeaders(config)) = 1
           /\ \A h \in JournalHeaders(config) :
                /\ h + n <= Len(ls)
                /\ \A k \in 1..n :
                     ls[h + k] = Assignment(hist[n + 1 - k].key, hist[n + 1 - k].value)

(***************************************************************************)
(* Properties of main() of linuxmint-setup.py.                             *)
(***************************************************************************)
\* The action flags given on the command line the process was started with.
FlagsGiven ==
    {options[OptionOf(argv0[i])].dest :
        i \in {j \in 2..Len(argv0) : OptionOf(argv0[j]) # 0}} \ {"help"}

\* The actions started, in the order in which they were started.
ActionsRun == [i \in 1..Len(ran) |-> ran[i].action]

\* C5 as claimed: in a run that reaches the dispatch of main(), once the
\* process is over the actions run are exactly the actions whose flags were
\* given, each once, in the order update, remove, install, vscode, clean,
\* system.
C5_AsClaimed ==
    (pc = "exited" /\ exit.cause \in {"end", "traceback"})
    => ActionsRun = SelectSeq(ActionOrder, LAMBDA a : a \in FlagsGiven)

\* C6: no action is started in a process whose uid is not 0; a process that is
\* not root makes no step of the dispatch; the process sudo starts has the
\* argument vector of the process that called it; and a failed re-execution
\* ends the process with status 1 and no action run.
C6_ActionsOnlyAsRoot ==
    /\ \A i \in 1..Len(ran) : ran[i].uid = Root
    /\ pc = "actions" => uid = Root
    /\ uid # Root => (ran = <<>> /\ last = NoStep)
    /\ sudo_calls > 0 => (pc = "exited" \/ uid = Root)
    /\ sys_argv = argv0
    /\ exit.cause \in {"elevate", "sudo"} => (exit.status = 1 /\ ran = <<>>)

\* C6's case: an action started in the process that sudo started.
C6_Witness ==
    /\ sudo_calls = 1
    /\ ran # <<>>
    /\ Len(sys_argv) > 2

\* C7 as claimed: an external command that fails has its failure logged and
\* does not end the process, the remaining actions still run.  (Stated for
\* the failure that the command cannot be started.)
C7_AsClaimed ==
    (last.kind = "cmd" /\ last.outcome = "cannot_start")
    => (last.logged /\ exit.cause # "traceback")

\* C8: with no command-line argument the process ends in check_argv with the
\* usage text and status 1, before any sudo call and before any action; with
\* an argument that exit is never taken.
C8_UsageExitIffNoArguments ==
    /\ exit.cause = "usage"
         => (Len(argv0) = 1 /\ exit.status = 1 /\ sudo_calls = 0 /\ ran = <<>>)
    /\ (Len(argv0) = 1 /\ pc \notin {"cli_options", "check_argv"})
         => (pc = "exited" /\ exit.cause = "usage")

\* C8's case: started without arguments by a user who is not root, the process
\* has left through the usage exit.
C8_Witness ==
    /\ Len(argv0) = 1
    /\ uid # Root
    /\ pc = "exited"
    /\ exit = [status |-> 1, cause |-> "usage"]

\* The actions that call Setup.update() before their package command.
PackageActions == {"update", "remove", "install", "vscode", "clean"}

\* C19 as claimed: in a run that reaches the dispatch of main(), once the
\* process is over Setup.update() has been performed exactly once for every
\* flag given among update, remove, install, vscode and clean (and not for
\* system).
C19_AsClaimed ==
    (pc = "exited" /\ exit.cause \in {"end", "traceback"})
    => refreshes = Cardinality(FlagsGiven \cap PackageActions)

(***************************************************************************)
(* Properties of install_vscode and of the activation of the services,     *)
(* over the steps run.                                                     *)
(***************************************************************************)
\* The step with this op was run / was run and succeeded.
Issued(op) == \E k \in 1..Len(rt_trace) : rt_trace[k].op = op
Did(op)    == \E k \in 1..Len(rt_trace) :
                 rt_trace[k].op = op /\ rt_trace[k].outcome = "ok"

\* The routine logged a line of this level from this try block.
Logged(level, try) ==
    \E k \in 1..Len(rt_log) : rt_log[k] = [level |-> level, try |-> try]

\* The steps of install_vscode that remove the conflicting files come first.
NRemovals == Len(conflicting_files)

KeyringPath  == "/etc/apt/keyrings/packages.microsoft.gpg"
RepoListPath == "/etc/apt/sources.list.d/vscode.list"

\* C14: the steps of install_vscode run are the first steps of the fixed
\* sequence (the removals, os.makedirs, the download, gpg --dearmor, the
\* keyring file, its chmod, the repository list, rm of the APT lists, nala
\* update, nala install code), in that order; the routine never raises and
\* does not end before every removal was tried and os.makedirs was reached,
\* whichever removals failed; from os.makedirs on a step is run only if every
\* step before it, from os.makedirs on, succeeded; so the repository list is
\* written only after the keyring file was, nala install only after both files
\* were written and nala update succeeded; and the success line is logged only
\* when every step from os.makedirs on was run and succeeded.
C14_FixedOrderStopAtFirstFailure ==
    rt_routine = "install_vscode"
    => LET n == Len(rt_trace)
       IN  /\ rt_state # "raised"
           /\ n <= Len(install_vscode_steps)
           /\ \A k \in 1..n : rt_trace[k].op = install_vscode_steps[k].op
           /\ rt_state = "returned" => n > NRemovals
           /\ \A k \in (NRemovals + 2)..n :
                \A j \in (NRemovals + 1)..(k - 1) : rt_trace[j].outcome = "ok"
           /\ Issued(<<"write", RepoListPath>>) => Did(<<"write", KeyringPath>>)
           /\ Issued(<<"nala", "install", "-y", "code">>)
                => /\ Did(<<"write", KeyringPath>>)
                   /\ Did(<<"write", RepoListPath>>)
                   /\ Did(<<"nala", "update">>)
           /\ Logged("success", <<"install_vscode">>)
                => /\ rt_state = "returned"
                   /\ n = Len(install_vscode_steps)
                   /\ \A j \in (NRemovals + 1)..n : rt_trace[j].outcome = "ok"

\* C14's case: install_vscode has returned after all its steps, two removals
\* having failed, and has logged its success.
C14_Witness ==
    /\ rt_routine = "install_vscode"
    /\ rt_state = "returned"
    /\ Len(rt_trace) = Len(install_vscode_steps)
    /\ rt_trace[1].outcome = "raises"
    /\ rt_trace[NRemovals].outcome = "raises"
    /\ Logged("error", <<"os.remove", conflicting_files[1]>>)
    /\ Logged("success", <<"install_vscode">>)

\* The commands of activate_service for a service.
EnableOf(s)  == <<"systemctl", "enable", "--now", s>>
RestartOf(s) == <<"systemctl", "restart", s>>
StatusOf(s)  == <<"systemctl", "--no-pager", "status", s, "-n", "0">>

\* The index in the trace of the step with this op (0 when it was not run).
IndexOf(op) ==
    IF Issued(op) THEN CHOOSE k \in 1..Len(rt_trace) : rt_trace[k].op = op ELSE 0

\* C15 as claimed: for every service the commands run are enable --now, then
\* restart, then status; restart is run only after enable succeeded, status
\* only after restart succeeded, success is logged only when status returned
\* 0; and once the loop is over, every service of the list has had its
\* enable --now run, whatever failed for the services before it.
C15_AsClaimed ==
    rt_routine = "activate_services"
    => \A i \in 1..Len(services) :
         LET s == services[i]
         IN  /\ Issued(RestartOf(s))
                  => (Did(EnableOf(s)) /\ IndexOf(EnableOf(s)) < IndexOf(RestartOf(s)))
             /\ Issued(StatusOf(s))
                  => (Did(RestartOf(s)) /\ IndexOf(RestartOf(s)) < IndexOf(StatusOf(s)))
             /\ Logged("success", <<"activate_service", s>>) => Did(StatusOf(s))
             /\ rt_state \in {"returned", "raised"} => Issued(EnableOf(s))

(***************************************************************************)
(* Properties of the preference-file writer.                               *)
(***************************************************************************)
CfgLines == readlines(ff_cfg)

IsBlankLine(l)    == l = <<NL>>
IsCommentLine(l)  == startswith(l, <<"//">>)
IsLockPrefLine(l) == startswith(l, <<"lockPref(">>)

\* The (key, value) pairs of the calls made so far, in the order given.
PairsWritten ==
    SelectSeq(SubSeq(cfg_calls, 1, ff_i), LAMBDA c : c.fn = "lock_pref")

\* The line lockPref("key", value); with the value as Python prints it.
LockPrefLine(c) ==
    <<"lockPref(", "\"", c.key, "\"", ", ",
      IF "int" \in DOMAIN c.value THEN ToString(c.value.int) ELSE c.value.str,
      ");", NL>>

\* C9: the file holds exactly one lockPref("key", value); line per pair, in the
\* order of the pairs; a blank line stands only directly before a comment
\* line, and every comment line has exactly one blank line before it.
C9_OneLinePerPairNoStrayBlank ==
    ff_pc \in {"write", "done"}
    => LET ls == CfgLines
       IN  /\ SelectSeq(ls, IsLockPrefLine)
                = [i \in 1..Len(PairsWritten) |-> LockPrefLine(PairsWritten[i])]
           /\ \A i \in 1..Len(ls) :
                /\ IsBlankLine(ls[i]) \/ IsCommentLine(ls[i]) \/ IsLockPrefLine(ls[i])
                /\ IsBlankLine(ls[i]) => (i < Len(ls) /\ IsCommentLine(ls[i + 1]))
                /\ IsCommentLine(ls[i]) => (i > 1 /\ IsBlankLine(ls[i - 1]))

\* C9's case: the whole file written, over an older firefox.cfg.
C9_Witness ==
    /\ ff_pc = "done"
    /\ ff_i = Len(cfg_calls)
    /\ Len(SelectSeq(CfgLines, IsLockPrefLine)) = 80
    /\ Len(SelectSeq(CfgLines, IsBlankLine)) = 15

====
